---- MODULE Spec2Model ----
(***************************************************************************)
(* Odour source detection: the location-aware retrieval pipeline.          *)
(*   QueryExtractor.extract_location   (query_extractor.py)                *)
(*   QueryProcessor.process_query and its stages (query_processor.py)      *)
(*   KBPreparation.generate_tfidf_matrix and the artifact load             *)
(*                                                                         *)
(* Text is a sequence of one-character strings.  Geographic coordinates    *)
(* are integers in units of 1e-5 degree; planar (EPSG:32643) coordinates   *)
(* and distances are integers in metres.                                   *)
(***************************************************************************)
EXTENDS Integers, Sequences, FiniteSets, TLC

VARIABLES
  df,               \* QueryProcessor.df: the Record Store (rows in file order)
  vectorizer,       \* QueryProcessor.vectorizer: vocabulary and idf weights
  feature_matrix,   \* QueryProcessor.feature_matrix: one weight row per record
  pc,               \* position of the running call
  query,            \* the query text of the running call
  location,         \* extract_location's result: <<>> is None, <<s>> is s
  stage,            \* cascade stage that produced location (0: none)
  cascade,          \* the running extract_location: what the detectors answered
                    \* when asked (cities, ents) and the stages evaluated, in order
  answer,           \* <<>>, or <<a>>: the geocoder's answer a to the running call
  coords,           \* geocode_location's result: <<>> is None
  nearby_sources,   \* find_nearby_sources' result (rows with distance_m)
  gdf,              \* the frame handed to filter_odor_sources
  odor_sources,     \* filter_odor_sources' result
  results,          \* process_query's return value
  raised,           \* <<>>, or <<e>>: the call ended raising CustomException(e)
  calls,            \* the stages process_query has invoked, in order
  served,           \* process_query calls completed since construction
  files,            \* artifacts on disk: path -> [build, complete]
  bpc,              \* position of the index build (generate_tfidf_matrix)
  build,            \* number of the build being written
  lpc,              \* position of QueryProcessor.__init__
  loaded            \* what __init__ has read so far: path -> <<>> or <<content>>

vars == << df, vectorizer, feature_matrix, pc, query, location, stage, cascade,
           answer, coords,
           nearby_sources, gdf, odor_sources, results, raised, calls, served,
           files, bpc, build, lpc, loaded >>

----------------------------------------------------------------------------
(* Text helpers *)

UpperChars == <<"A","B","C","D","E","F","G","H","I","J","K","L","M",
                "N","O","P","Q","R","S","T","U","V","W","X","Y","Z">>
LowerChars == <<"a","b","c","d","e","f","g","h","i","j","k","l","m",
                "n","o","p","q","r","s","t","u","v","w","x","y","z">>
DigitChars == <<"0","1","2","3","4","5","6","7","8","9">>

Range(s) == { s[i] : i \in 1..Len(s) }

\* str.lower() on one character
LowerOf == [ i \in 1..26 |-> LowerChars[i] ]
UpperSet == Range(UpperChars)
UpperIndex == [ c \in UpperSet |-> CHOOSE i \in 1..26 : UpperChars[i] = c ]
LowerChar(c) == IF c \in UpperSet THEN LowerOf[UpperIndex[c]] ELSE c

\* str.lower()
Lower(s) == [ i \in 1..Len(s) |-> LowerChar(s[i]) ]

\* the regex class \w
WordChars == Range(UpperChars) \cup Range(LowerChars) \cup Range(DigitChars) \cup {"_"}
IsWordChar(c) == c \in WordChars

\* the regex assertion \b between s[i] and s[i+1] (i = 0: start, i = Len(s): end)
WordBoundary(s, i) ==
  LET before == i >= 1 /\ IsWordChar(s[i])
      after  == i < Len(s) /\ IsWordChar(s[i + 1])
  IN  before # after

\* the literal pat occupies s[i .. i+Len(pat)-1]
MatchesAt(s, pat, i) ==
  /\ i >= 1
  /\ i + Len(pat) - 1 <= Len(s)
  /\ \A k \in 1..Len(pat) : s[i + k - 1] = pat[k]

\* Python's "pat in s"
Contains(s, pat) == \E i \in 1..(Len(s) - Len(pat) + 1) : MatchesAt(s, pat, i)

\* sep.join(ss)
RECURSIVE Join(_, _)
Join(sep, ss) ==
  IF ss = <<>> THEN <<>>
  ELSE IF Len(ss) = 1 THEN ss[1]
  ELSE ss[1] \o sep \o Join(sep, Tail(ss))

----------------------------------------------------------------------------
(* QueryExtractor *)

ahmedabad_areas ==
  << <<"N","a","v","r","a","n","g","p","u","r","a">>,
     <<"V","a","s","t","r","a","p","u","r">>,
     <<"S","a","t","e","l","l","i","t","e">>,
     <<"B","o","p","a","l">>,
     <<"M","a","n","i","n","a","g","a","r">>,
     <<"C","h","a","n","d","k","h","e","d","a">>,
     <<"T","h","a","l","t","e","j">>,
     <<"B","o","d","a","k","d","e","v">>,
     <<"G","h","a","t","l","o","d","i","a">>,
     <<"I","s","a","n","p","u","r">>,
     <<"V","e","j","a","l","p","u","r">>,
     <<"G","o","t","a">>,
     <<"N","a","r","a","n","p","u","r","a">>,
     <<"S","a","b","a","r","m","a","t","i">>,
     <<"R","a","n","i","p">>,
     <<"E","l","l","i","s"," ","B","r","i","d","g","e">>,
     <<"P","a","l","d","i">>,
     <<"S","h","a","h","i","b","a","u","g">>,
     <<"M","e","m","n","a","g","a","r">>,
     <<"J","o","d","h","p","u","r">>,
     <<"A","m","b","a","w","a","d","i">>,
     <<"K","a","l","u","p","u","r">>,
     <<"N","a","r","o","d","a">>,
     <<"O","d","h","a","v">>,
     <<"V","a","t","v","a">>,
     <<"N","i","k","o","l">>,
     <<"G","h","e","e","k","a","n","t","a">>,
     <<"J","a","m","a","l","p","u","r">>,
     <<"S","o","l","a">>,
     <<"S","a","r","k","h","e","j">>,
     <<"H","a","n","s","o","l">>,
     <<"A","s","a","r","w","a">>,
     <<"D","a","r","i","a","p","u","r">>,
     <<"G","o","m","t","i","p","u","r">>,
     <<"B","e","h","r","a","m","p","u","r","a">>,
     <<"R","a","i","p","u","r">>,
     <<"V","a","s","t","r","a","l">>,
     <<"A","m","r","a","i","w","a","d","i">>,
     <<"N","e","w"," ","R","a","n","i","p">>,
     <<"L","a","m","b","h","a">>,
     <<"R","a","k","h","i","a","l">>,
     <<"K","u","b","e","r","n","a","g","a","r">>,
     <<"C","h","a","n","d","l","o","d","i","a">>,
     <<"S","i","n","d","h","u","B","h","a","v","a","n">> >>

\* re.search(rf'\b{re.escape(area.lower())}\w*\b', query_lower)
AreaPatternMatches(area, query_lower) ==
  LET pat == Lower(area)
      n   == Len(pat)
  IN  \E i \in 1..Len(query_lower) :
        /\ WordBoundary(query_lower, i - 1)
        /\ MatchesAt(query_lower, pat, i)
        /\ \E j \in (i + n - 1)..Len(query_lower) :
             /\ \A k \in (i + n)..j : IsWordChar(query_lower[k])
             /\ WordBoundary(query_lower, j)

\* Priority 3: the first entry of ahmedabad_areas, in list order, whose
\* pattern matches the lower-cased query; <<>> when none does.
MatchArea(user_query) ==
  LET query_lower == Lower(user_query)
      hits == { i \in 1..Len(ahmedabad_areas) :
                  AreaPatternMatches(ahmedabad_areas[i], query_lower) }
  IN  IF hits = {} THEN <<>>
      ELSE << ahmedabad_areas[CHOOSE i \in hits : \A j \in hits : i <= j] >>

\* extract_location asking the entity tagger before the gazetteer
ExtractLocationNerFirst(user_query, cities, ents) ==
  LET gpe == { i \in 1..Len(ents) : ents[i].label_ = "GPE" }
  IN  IF gpe # {}
      THEN [location |-> << ents[CHOOSE i \in gpe : \A j \in gpe : i <= j].text >>,
            stage |-> 2, evaluated |-> << 1, 2 >>]
      ELSE IF cities # <<>>
      THEN [location |-> << cities[1] >>, stage |-> 1, evaluated |-> << 1, 2 >>]
      ELSE IF MatchArea(user_query) # <<>>
      THEN [location |-> MatchArea(user_query), stage |-> 3, evaluated |-> << 1, 2, 3 >>]
      ELSE [location |-> <<>>, stage |-> 0, evaluated |-> << 1, 2, 3 >>]

\* extract_location: cities is GeoText(user_query).cities and ents is
\* nlp(user_query).ents, the outputs of the two external detectors.
ExtractLocation(user_query, cities, ents) ==
  LET gpe == { i \in 1..Len(ents) : ents[i].label_ = "GPE" }
  IN  IF cities # <<>>
      THEN [location |-> << cities[1] >>, stage |-> 1, evaluated |-> << 1 >>]
      ELSE IF gpe # {}
      THEN [location |-> << ents[CHOOSE i \in gpe : \A j \in gpe : i <= j].text >>,
            stage |-> 2, evaluated |-> << 1, 2 >>]
      ELSE IF MatchArea(user_query) # <<>>
      THEN [location |-> MatchArea(user_query), stage |-> 3, evaluated |-> << 1, 2, 3 >>]
      ELSE [location |-> <<>>, stage |-> 0, evaluated |-> << 1, 2, 3 >>]

\* no extract_location is running
NoCascade == [cities |-> <<>>, ents |-> <<>>, evaluated |-> <<>>]

\* what a run r of extract_location saw: GeoText's answer, spaCy's answer if
\* it was asked, and the stages it evaluated
Cascade(r, cities, ents) ==
  [ cities |-> cities,
    ents |-> IF \E i \in 1..Len(r.evaluated) : r.evaluated[i] = 2 THEN ents ELSE <<>>,
    evaluated |-> r.evaluated ]

----------------------------------------------------------------------------
(* Planar geometry: shapely / pyproj as used by find_nearby_sources *)

\* QueryProcessorConfig.search_radius_m
search_radius_m == 5000

\* GeoSeries.buffer's default: segments per quarter circle
quad_segs == 16

Abs(n) == IF n < 0 THEN -n ELSE n
Max(a, b) == IF a >= b THEN a ELSE b

RECURSIVE SqrtSearch(_, _, _)
SqrtSearch(n, lo, hi) ==
  IF lo = hi THEN lo
  ELSE LET mid == (lo + hi + 1) \div 2
       IN  IF mid * mid <= n THEN SqrtSearch(n, mid, hi)
           ELSE SqrtSearch(n, lo, mid - 1)

\* floor of the square root, for 0 <= n < 2^31
ISqrt(n) == SqrtSearch(n, 0, 46340)

\* Point(x, y)
Point(x, y) == [x |-> x, y |-> y]

\* to_crs("EPSG:32643") on an EPSG:4326 point: UTM zone 43N, as its first-order
\* expansion about (72.62 E, 23.00 N), the region of the Record Store
\* (within 2 m of the exact projection over the modelled window).
\* In: 1e-5 degree.  Out: metres (easting, northing).
to_crs_32643(p) ==
  LET dlon == p.x - 7262000
      dlat == p.y - 2300000
  IN  Point(256045 + (10254 * dlon + 180 * dlat) \div 10000,
            2545500 + (11077 * dlat - 166 * dlon) \div 10000)

\* to_crs("EPSG:4326") on an EPSG:32643 point: the inverse expansion.
\* In: metres.  Out: 1e-5 degree.
to_crs_4326(p) ==
  LET dE == p.x - 256045
      dN == p.y - 2545500
  IN  Point(7262000 + (9749 * dE - 158 * dN) \div 10000,
            2300000 + (146 * dE + 9026 * dN) \div 10000)

\* GeoSeries([geom], crs="EPSG:32643"): the coordinates of geom are taken as
\* they are and labelled as metres.  A coordinate held in 1e-5 degree is the
\* number ticks / 100000 (72.62 degrees is the number 72.62).
LabelledAs32643(geom) == Point(geom.x \div 100000, geom.y \div 100000)

\* shapely distance between two planar points, in whole metres.  Operands
\* whose square would leave 31 bits are taken in units of 100 m.
Distance(p, q) ==
  LET dx == Abs(p.x - q.x)
      dy == Abs(p.y - q.y)
      s  == IF Max(dx, dy) <= 32767 THEN 1 ELSE 100
  IN  s * ISqrt((dx \div s) * (dx \div s) + (dy \div s) * (dy \div s))

\* 10000 * cos(k * pi / 32), k = 0..16, truncated
CircleCos ==
  << 10000, 9951, 9807, 9569, 9238, 8819, 8314, 7730, 7071,
     6343, 5555, 4713, 3826, 2902, 1950, 980, 0 >>

\* point.buffer(radius): the polygon through quad_segs points per quarter of
\* the circle.  BufferVertex(radius, k), k = 0..quad_segs, walks the first
\* quadrant from (radius, 0) to (0, radius), relative to the centre; the
\* other quadrants are its mirror images.
BufferVertex(radius, k) ==
  Point((radius * CircleCos[k + 1]) \div 10000,
        (radius * CircleCos[quad_segs - k + 1]) \div 10000)

\* geometry.intersects(buffer): the point lies in the polygon or on its edge
Intersects(p, center, radius) ==
  LET x == Abs(p.x - center.x)
      y == Abs(p.y - center.y)
  IN  \A k \in 0..(quad_segs - 1) :
        LET a == BufferVertex(radius, k)
            b == BufferVertex(radius, k + 1)
        IN  (b.x - a.x) * (y - a.y) - (b.y - a.y) * (x - a.x) >= 0

\* find_nearby_sources(latitude, longitude) on the record table d.
\* Row labels (idx) are the positions in the record file, as read_csv sets them.
\* data with the geometry column set: a point per row from its coordinates
WithGeometry(data) ==
  [ i \in 1..Len(data) |->
      [ f \in (DOMAIN data[i]) \cup {"geometry"} |->
          IF f = "geometry" THEN Point(data[i].longitude, data[i].latitude)
          ELSE data[i][f] ] ]

\* GeoDataFrame(data, geometry=...) setting the column on the table passed in
GeoDataFrameInPlace(data) ==
  [ frame |-> WithGeometry(data), data |-> WithGeometry(data) ]

\* gpd.GeoDataFrame(data, geometry=points_from_xy(...), crs="EPSG:4326"): the
\* frame built, and the table passed in as the call leaves it.  The frame is
\* built on a copy of the plain table, so the geometry column is set on the
\* copy alone.
GeoDataFrame(data) ==
  [ frame |-> WithGeometry(data), data |-> data ]

find_nearby_sources(d, latitude, longitude) ==
  LET gdf_utm == [ i \in 1..Len(d) |->
                     to_crs_32643(Point(d[i].longitude, d[i].latitude)) ]
      query_point_utm == to_crs_32643(Point(longitude, latitude))
      rows == [ i \in 1..Len(d) |->
                 LET geom == to_crs_4326(gdf_utm[i])
                 IN  [ idx |-> i - 1,
                       name |-> d[i].name, type |-> d[i].type, tags |-> d[i].tags,
                       latitude |-> d[i].latitude, longitude |-> d[i].longitude,
                       geometry |-> geom,
                       distance_m |-> Distance(query_point_utm, LabelledAs32643(geom)) ] ]
      InBuffer(r) == Intersects(gdf_utm[r.idx + 1], query_point_utm, search_radius_m)
  IN  SelectSeq(rows, InBuffer)

----------------------------------------------------------------------------
(* Tag cells.  The tags column holds text; a cell is modelled by what       *)
(* json.loads makes of that text:                                          *)
(*   kind "nan"     the cell is missing (pd.notna is false)                *)
(*   kind "invalid" not JSON: json.loads raises JSONDecodeError            *)
(*   kind "object"  a JSON object; items are its key/value pairs in order  *)
(*   kind "array"   a JSON array; items carry its elements as values       *)

\* json.loads(tags_str) raises json.JSONDecodeError
JSONDecodeError(tags_str) == tags_str.kind = "invalid"

\* tags.values() exists: the parsed value is a dict
HasValues(tags_str) == tags_str.kind \in {"nan", "object"}

\* Values reading the keys of the mapping as well
ValuesAndKeys(tags_str) ==
  IF tags_str.kind = "object"
  THEN [ i \in 1..Len(tags_str.items) |-> tags_str.items[i].k \o <<" ">> \o tags_str.items[i].v ]
  ELSE <<>>

\* list(tags.values()) where tags = json.loads(tags_str) if pd.notna(tags_str) else {}
Values(tags_str) ==
  IF tags_str.kind = "object"
  THEN [ i \in 1..Len(tags_str.items) |-> tags_str.items[i].v ]
  ELSE <<>>

\* str(tags.values()): "dict_values(['landfill', 'yes'])"
StrOfValues(vals) ==
  <<"d","i","c","t","_","v","a","l","u","e","s","(","[">>
    \o Join(<<",", " ">>, [ i \in 1..Len(vals) |-> <<"'">> \o vals[i] \o <<"'">> ])
    \o <<"]", ")">>

odor_keywords ==
  << <<"l","a","n","d","f","i","l","l">>,
     <<"w","a","s","t","e">>,
     <<"i","n","d","u","s","t","r","i","a","l">>,
     <<"s","e","w","a","g","e">>,
     <<"d","u","m","p">>,
     <<"g","a","r","b","a","g","e">>,
     <<"c","h","e","m","i","c","a","l">>,
     <<"f","a","c","t","o","r","y">>,
     <<"s","l","a","u","g","h","t","e","r","h","o","u","s","e">>,
     <<"r","e","f","i","n","e","r","y">> >>

\* is_odor_source(tags_str): "True", "False", or the exception that escapes it
is_odor_source(tags_str) ==
  IF tags_str.kind # "nan" /\ JSONDecodeError(tags_str) THEN "False"
  ELSE IF ~HasValues(tags_str) THEN "AttributeError"
  ELSE IF \E k \in 1..Len(odor_keywords) :
            Contains(Lower(StrOfValues(Values(tags_str))), odor_keywords[k])
       THEN "True"
       ELSE "False"

----------------------------------------------------------------------------
(* TF-IDF: the vectorizer is [vocabulary, idf], column j weighing term      *)
(* vocabulary[j]; similarities are in hundredths.                           *)

\* token_pattern (?u)\b\w\w+\b over the text: runs of two or more word characters
RECURSIVE Tokens(_, _, _)
Tokens(s, i, cur) ==
  LET done == IF Len(cur) >= 2 THEN << cur >> ELSE <<>>
  IN  IF i > Len(s) THEN done
      ELSE IF IsWordChar(s[i]) THEN Tokens(s, i + 1, Append(cur, s[i]))
      ELSE done \o Tokens(s, i + 1, <<>>)

\* vectorizer.transform([text]): term count times idf per vocabulary column
\* (the row's L2 normalisation is left to cosine_similarity, which normalises)
Transform(vec, text) ==
  LET toks == Tokens(Lower(text), 1, <<>>)
  IN  [ j \in 1..Len(vec.vocabulary) |->
          Cardinality({ i \in 1..Len(toks) : toks[i] = vec.vocabulary[j] }) * vec.idf[j] ]

RECURSIVE Dot(_, _)
Dot(u, v) == IF u = <<>> THEN 0 ELSE u[1] * v[1] + Dot(Tail(u), Tail(v))

\* cosine_similarity of two rows, in hundredths; 0 when either row is zero
cosine_similarity(u, v) ==
  IF Dot(u, u) = 0 \/ Dot(v, v) = 0 THEN 0
  ELSE ISqrt((10000 * Dot(u, v) * Dot(u, v)) \div (Dot(u, u) * Dot(v, v)))

\* KBPreparation.preprocess_text: name, type and the tag values of one record
combined_text(rec) ==
  Join(<<" ">>, << (IF rec.name = <<>> THEN <<>> ELSE rec.name[1]),
                   rec.type,
                   Join(<<" ">>, Values(rec.tags)) >>)

\* KBPreparation.generate_tfidf_matrix: one row per record, in record order
fit_transform(vec, d) == [ i \in 1..Len(d) |-> Transform(vec, combined_text(d[i])) ]

----------------------------------------------------------------------------
(* QueryProcessor.filter_odor_sources *)

\* SortsBefore ranking by similarity alone
SortsBeforeNoTieBreak(a, b) == a.similarity > b.similarity

\* the order of sort_values(by=['similarity', 'distance_m'], ascending=[False, True])
SortsBefore(a, b) ==
  \/ a.similarity > b.similarity
  \/ a.similarity = b.similarity /\ a.distance_m < b.distance_m

\* stable insertion of row x into the sorted rows s
RECURSIVE InsertSorted(_, _)
InsertSorted(x, s) ==
  IF s = <<>> THEN << x >>
  ELSE IF SortsBefore(x, s[1]) THEN << x >> \o s
  ELSE << s[1] >> \o InsertSorted(x, Tail(s))

RECURSIVE SortRows(_, _)
SortRows(rows, n) ==
  IF n = 0 THEN <<>> ELSE InsertSorted(rows[n], SortRows(rows, n - 1))

\* sort_values: stable, so ties keep their frame order
sort_values(rows) ==
  LET Rev == [ i \in 1..Len(rows) |-> rows[Len(rows) + 1 - i] ]
  IN  SortRows(Rev, Len(rows))

KeptByGate(row) == is_odor_source(row.tags) = "True"

\* filter_odor_sources reading the similarity at the row's position in the
\* gated frame instead of at its label
filter_odor_sources_positional(g, q, vec, fm) ==
  LET errs == { i \in 1..Len(g) : is_odor_source(g[i].tags) = "AttributeError" }
      gated == SelectSeq(g, KeptByGate)
      query_vector == Transform(vec, q)
      scored == [ i \in 1..Len(gated) |->
                   [ idx |-> gated[i].idx, name |-> gated[i].name, type |-> gated[i].type,
                     tags |-> gated[i].tags,
                     latitude |-> gated[i].latitude, longitude |-> gated[i].longitude,
                     geometry |-> gated[i].geometry, distance_m |-> gated[i].distance_m,
                     similarity |-> cosine_similarity(query_vector, fm[i]) ] ]
  IN  IF errs # {} THEN [raised |-> << "AttributeError" >>, frame |-> <<>>]
      ELSE IF q = <<>> THEN [raised |-> <<>>, frame |-> gated]
      ELSE [raised |-> <<>>, frame |-> sort_values(scored)]

\* filter_odor_sources(gdf, query) with the loaded vectorizer and feature
\* matrix: [raised |-> <<>> or <<exception>>, frame |-> the returned rows]
filter_odor_sources(g, q, vec, fm) ==
  LET errs == { i \in 1..Len(g) : is_odor_source(g[i].tags) = "AttributeError" }
      gated == SelectSeq(g, KeptByGate)
      query_vector == Transform(vec, q)
      scored == [ i \in 1..Len(gated) |->
                   [ idx |-> gated[i].idx, name |-> gated[i].name, type |-> gated[i].type,
                     tags |-> gated[i].tags,
                     latitude |-> gated[i].latitude, longitude |-> gated[i].longitude,
                     geometry |-> gated[i].geometry, distance_m |-> gated[i].distance_m,
                     similarity |-> cosine_similarity(query_vector, fm[gated[i].idx + 1]) ] ]
  IN  IF errs # {} THEN [raised |-> << "AttributeError" >>, frame |-> <<>>]
      ELSE IF q = <<>> THEN [raised |-> <<>>, frame |-> gated]
      ELSE [raised |-> <<>>, frame |-> sort_values(scored)]

\* Step 5 of process_query: one result per row of the filtered frame
FormatRow(row) ==
  [ name |-> IF row.name # <<>> THEN row.name[1] ELSE <<"U","n","k","n","o","w","n">>,
    type |-> row.type,
    tags |-> IF row.tags.kind = "nan" THEN <<>> ELSE row.tags.items,
    latitude |-> row.latitude, longitude |-> row.longitude,
    distance_m |-> row.distance_m,
    similarity |-> IF "similarity" \in DOMAIN row THEN row.similarity ELSE 0 ]

----------------------------------------------------------------------------
(* Bounds and the data the model ranges over *)

\* records in a Record Store
MaxRecords == 2

\* rows in a frame handed directly to filter_odor_sources
MaxCandidates == 3

\* words in a query handed directly to extract_location
MaxQueryWords == 3

\* index builds that run while a QueryProcessor starts
MaxBuilds == 2
MaxCalls == 2

\* Facility records as the ingestion writes them: tags is json.dumps of a
\* mapping, or missing.  Positions around (23.00 N, 72.62 E).
RecordPool ==
  << [ name |-> << <<"P","i","r","a","n","a">> >>, type |-> <<"P","o","l","y","g","o","n">>,
       tags |-> [kind |-> "object", items |-> << [k |-> <<"l","a","n","d","u","s","e">>, v |-> <<"l","a","n","d","f","i","l","l">>] >>],
       latitude |-> 2300000, longitude |-> 7262000 ],
     [ name |-> << <<"C","a","f","e">> >>, type |-> <<"P","o","i","n","t">>,
       tags |-> [kind |-> "object", items |-> << [k |-> <<"a","m","e","n","i","t","y">>, v |-> <<"c","a","f","e">>] >>],
       latitude |-> 2300100, longitude |-> 7262200 ],
     [ name |-> <<>>, type |-> <<"P","o","l","y","g","o","n">>,
       tags |-> [kind |-> "object", items |-> << [k |-> <<"l","a","n","d","u","s","e">>, v |-> <<"I","n","d","u","s","t","r","i","a","l">>] >>],
       latitude |-> 2304000, longitude |-> 7264550 ],
     [ name |-> << <<"P","l","a","n","t">> >>, type |-> <<"P","o","i","n","t">>,
       tags |-> [kind |-> "object", items |-> << [k |-> <<"m","a","n","_","m","a","d","e">>, v |-> <<"w","a","s","t","e","w","a","t","e","r","_","p","l","a","n","t">>], [k |-> <<"o","p","e","r","a","t","o","r">>, v |-> <<"A","M","C">>] >>],
       latitude |-> 2300200, longitude |-> 7267000 ],
     [ name |-> << <<"D","e","p","o","t">> >>, type |-> <<"P","o","i","n","t">>,
       tags |-> [kind |-> "object", items |-> << [k |-> <<"i","n","d","u","s","t","r","i","a","l">>, v |-> <<"o","i","l">>] >>],
       latitude |-> 2300050, longitude |-> 7262050 ],
     [ name |-> << <<"D","u","m","p">> >>, type |-> <<"P","o","i","n","t">>,
       tags |-> [kind |-> "nan", items |-> <<>>],
       latitude |-> 2300000, longitude |-> 7262100 ] >>

\* Tag cells that json.dumps never writes but a record file can hold
MalformedCells ==
  { [kind |-> "invalid", items |-> <<>>],
    [kind |-> "array", items |-> << [k |-> <<>>, v |-> <<"l","a","n","d","f","i","l","l">>] >>] }

\* the loaded TfidfVectorizer: vocabulary_ (columns in term order) and idf_
LoadedVectorizer ==
  [ vocabulary |-> << <<"c","a","f","e">>, <<"i","n","d","u","s","t","r","i","a","l">>, <<"l","a","n","d","f","i","l","l">>, <<"p","o","l","y","g","o","n">>, <<"w","a","s","t","e">> >>,
    idf |-> << 3, 2, 3, 1, 2 >> ]

\* Record Stores: the sequences of at most MaxRecords records
RecordStores == UNION { [1..n -> Range(RecordPool)] : n \in 1..MaxRecords }

\* queries a caller passes to process_query
Queries ==
  { <<"w","a","s","t","e"," ","s","m","e","l","l"," ","i","n"," ","B","o","p","a","l">>,
    <<"w","h","a","t"," ","i","s"," ","t","h","a","t"," ","s","m","e","l","l">>,
    <<"l","a","n","d","f","i","l","l"," ","n","e","a","r"," ","N","e","w"," ","R","a","n","i","p">> }

\* what the geocoder can answer for a place name: a point, nothing, or an error
GeocoderOutcomes ==
  { [kind |-> "found", latitude |-> 2300100, longitude |-> 7262100],
    [kind |-> "found", latitude |-> 2350000, longitude |-> 7262000],
    [kind |-> "none", latitude |-> 0, longitude |-> 0],
    [kind |-> "error", latitude |-> 0, longitude |-> 0] }

\* words of the text that start with a capital: what a place detector can report
CapitalisedWords(text) ==
  LET toks == Tokens(text, 1, <<>>)
  IN  { toks[i] : i \in { j \in 1..Len(toks) : toks[j][1] \in UpperSet } }

\* GeoText(user_query).cities: at most one city in the modelled queries
GeoTextCities(text) == { <<>> } \cup { << w >> : w \in CapitalisedWords(text) }

\* nlp(user_query).ents: at most one entity in the modelled queries
SpacyEnts(text) ==
  { <<>> } \cup { << [text |-> w, label_ |-> l] >> :
                    w \in CapitalisedWords(text), l \in {"GPE", "ORG"} }

----------------------------------------------------------------------------
(* QueryProcessor.process_query, one step per stage *)

\* Python's "not x" on an optional text: None or the empty string
Falsy(opt) == opt = <<>> \/ opt[1] = <<>>

\* geocode_location(location) given the geocoder's answer:
\* [raised |-> <<>> or <<exception>>, value |-> <<>> (None) or <<coordinates>>]
geocode_location(out) ==
  IF out.kind = "error" THEN [raised |-> << "GeocoderError" >>, value |-> <<>>]
  ELSE IF out.kind = "found"
  THEN [raised |-> <<>>,
        value |-> << [latitude |-> out.latitude, longitude |-> out.longitude] >>]
  ELSE [raised |-> <<>>, value |-> <<>>]

Idle ==
  /\ pc = "idle" /\ query = <<>> /\ location = <<>> /\ stage = 0
  /\ cascade = NoCascade /\ answer = <<>> /\ coords = <<>>
  /\ nearby_sources = <<>> /\ gdf = <<>> /\ odor_sources = <<>> /\ results = <<>>
  /\ raised = <<>> /\ calls = <<>> /\ served = 0

NoPublish ==
  /\ files = <<>> /\ bpc = "off" /\ build = 0 /\ lpc = "off" /\ loaded = <<>>

store == << df, vectorizer, feature_matrix >>
publish == << files, bpc, build, lpc, loaded >>

\* QueryProcessor.__init__ has loaded a record file and the index built from it
Init ==
  /\ df \in RecordStores
  /\ vectorizer = LoadedVectorizer
  /\ feature_matrix = fit_transform(vectorizer, df)
  /\ Idle
  /\ NoPublish

\* process_query(q) is entered
ProcessQuery(q) ==
  /\ pc = "idle"
  /\ served < MaxCalls
  /\ pc' = "extract"
  /\ query' = q
  /\ UNCHANGED << store, publish, served,
                  answer, location, stage, cascade, coords,
                  nearby_sources, gdf,
                  odor_sources, results, raised, calls >>

\* ExtractStage without the early return on a missing location
ExtractStageNoEarlyReturn ==
  /\ pc = "extract"
  /\ \E cities \in GeoTextCities(query), ents \in SpacyEnts(query) :
       LET r == ExtractLocation(query, cities, ents)
       IN  /\ location' = r.location
           /\ stage' = r.stage
           /\ cascade' = Cascade(r, cities, ents)
  /\ pc' = "geocode"
  /\ calls' = Append(calls, "extract_location")
  /\ UNCHANGED << store, publish, served,
                  answer, query, coords, nearby_sources, gdf,
                  odor_sources, results, raised >>

\* Step 1: location = self.extractor.extract_location(query)
ExtractStage ==
  /\ pc = "extract"
  /\ \E cities \in GeoTextCities(query), ents \in SpacyEnts(query) :
       LET r == ExtractLocation(query, cities, ents)
       IN  /\ location' = r.location
           /\ stage' = r.stage
           /\ cascade' = Cascade(r, cities, ents)
           /\ pc' = IF Falsy(r.location) THEN "returned" ELSE "geocode"
  /\ calls' = Append(calls, "extract_location")
  /\ UNCHANGED << store, publish, served,
                  answer, query, coords, nearby_sources, gdf,
                  odor_sources, results, raised >>

\* Step 2: coords = self.geocode_location(location)
GeocodeStage ==
  /\ pc = "geocode"
  /\ \E out \in GeocoderOutcomes :
       LET r == geocode_location(out)
       IN  /\ answer' = << out >>
           /\ raised' = r.raised
           /\ coords' = r.value
           /\ pc' = IF r.raised # <<>> THEN "raised"
                    ELSE IF r.value = <<>> THEN "returned"
                    ELSE "find_nearby"
  /\ calls' = Append(calls, "geocode_location")
  /\ UNCHANGED << store, publish, served,
                  query, location, stage, cascade,
                  nearby_sources, gdf,
                  odor_sources, results >>

\* Step 3: nearby_sources = self.find_nearby_sources(latitude, longitude)
FindNearbyStage ==
  /\ pc = "find_nearby"
  /\ LET found == find_nearby_sources(df, coords[1].latitude, coords[1].longitude)
     IN  /\ nearby_sources' = found
         /\ pc' = IF found = <<>> THEN "returned" ELSE "filter"
  /\ df' = GeoDataFrame(df).data
  /\ calls' = Append(calls, "find_nearby_sources")
  /\ UNCHANGED << vectorizer, feature_matrix, publish, served,
                  answer, query, location, stage, cascade, coords,
                  gdf,
                  odor_sources, results, raised >>

\* Step 4: odor_sources = self.filter_odor_sources(nearby_sources, query)
FilterStage ==
  /\ pc = "filter"
  /\ LET r == filter_odor_sources(nearby_sources, query, vectorizer, feature_matrix)
     IN  /\ raised' = r.raised
         /\ odor_sources' = r.frame
         /\ pc' = IF r.raised # <<>> THEN "raised"
                  ELSE IF r.frame = <<>> THEN "returned"
                  ELSE "format"
  /\ gdf' = nearby_sources
  /\ calls' = Append(calls, "filter_odor_sources")
  /\ UNCHANGED << store, publish, served,
                  answer, query, location, stage, cascade, coords,
                  nearby_sources,
                  results >>

\* Step 5: the result list, one entry per row
FormatStage ==
  /\ pc = "format"
  /\ results' = [ i \in 1..Len(odor_sources) |-> FormatRow(odor_sources[i]) ]
  /\ pc' = "returned"
  /\ UNCHANGED << store, publish, served,
                  answer, query, location, stage, cascade, coords,
                  nearby_sources,
                  gdf, odor_sources, raised, calls >>

\* the call has returned or raised; the processor is ready for the next query
Finish ==
  /\ pc \in {"returned", "raised"}
  /\ pc' = "idle" /\ query' = <<>> /\ location' = <<>> /\ stage' = 0
  /\ cascade' = NoCascade /\ answer' = <<>> /\ coords' = <<>>
  /\ nearby_sources' = <<>> /\ gdf' = <<>> /\ odor_sources' = <<>> /\ results' = <<>>
  /\ raised' = <<>> /\ calls' = <<>>
  /\ served' = served + 1
  /\ UNCHANGED << store, publish >>

Next ==
  \/ \E q \in Queries : ProcessQuery(q)
  \/ ExtractStage
  \/ GeocodeStage
  \/ FindNearbyStage
  \/ FilterStage
  \/ FormatStage
  \/ Finish

Spec == Init /\ [][Next]_vars

----------------------------------------------------------------------------
(* Properties of process_query *)

StageOrder ==
  << "extract_location", "geocode_location", "find_nearby_sources",
     "filter_odor_sources" >>

\* C1: the stages are invoked in the order extract, geocode, find_nearby,
\* filter, each only after the one before it gave a non-empty result; a call
\* that returns after an empty stage result returns the empty list and has
\* invoked no later stage.
C1_StagesInOrder ==
  /\ Len(calls) <= Len(StageOrder)
  /\ calls = SubSeq(StageOrder, 1, Len(calls))
  /\ Len(calls) >= 2 => ~Falsy(location)
  /\ Len(calls) >= 3 => coords # <<>>
  /\ Len(calls) >= 4 => nearby_sources # <<>>
  /\ (pc = "returned" /\ Falsy(location))
        => (Len(calls) = 1 /\ results = <<>>)
  /\ (pc = "returned" /\ ~Falsy(location) /\ coords = <<>>)
        => (Len(calls) = 2 /\ results = <<>>)
  /\ (pc = "returned" /\ coords # <<>> /\ nearby_sources = <<>>)
        => (Len(calls) = 3 /\ results = <<>>)
  /\ (pc = "returned" /\ nearby_sources # <<>> /\ odor_sources = <<>>)
        => (Len(calls) = 4 /\ results = <<>>)
  /\ (pc = "returned" /\ results # <<>>) => (Len(calls) = 4 /\ odor_sources # <<>>)

\* C1 witness: a call that ran all four stages and ended on an empty gated set
C1_Witness ==
  /\ pc = "returned" /\ calls = StageOrder
  /\ nearby_sources # <<>> /\ odor_sources = <<>> /\ results = <<>>

\* C2: when the geocoder call fails, process_query returns the empty list
\* and surfaces no error.
C2_GeocoderFailureReturnsEmpty ==
  (answer # <<>> /\ answer[1].kind = "error")
     => (pc = "returned" /\ results = <<>> /\ raised = <<>>)

\* planar distance of p from c is at most r, exactly
WithinRadius(p, c, r) ==
  LET dx == Abs(p.x - c.x)
      dy == Abs(p.y - c.y)
  IN  Max(dx, dy) <= r /\ dx * dx + dy * dy <= r * r

\* the projected query point of the running call
QueryPointUtm == to_crs_32643(Point(coords[1].longitude, coords[1].latitude))

RecordUtm(i) == to_crs_32643(Point(df[i].longitude, df[i].latitude))

\* C3: find_nearby_sources returns exactly the records whose projected
\* location is at planar distance <= search_radius_m from the projected
\* query point.
C3_ExactlyTheRecordsWithinRadius ==
  Len(calls) >= 3 =>
    { nearby_sources[k].idx + 1 : k \in 1..Len(nearby_sources) }
      = { i \in 1..Len(df) : WithinRadius(RecordUtm(i), QueryPointUtm, search_radius_m) }

\* C4: the distance_m of every candidate is the planar distance in metres
\* between the projected query point and the projected record, and is at
\* most the search radius.
C4_DistanceIsPlanarMetres ==
  Len(calls) >= 3 =>
    \A k \in 1..Len(nearby_sources) :
      /\ nearby_sources[k].distance_m
           = Distance(QueryPointUtm, RecordUtm(nearby_sources[k].idx + 1))
      /\ nearby_sources[k].distance_m <= search_radius_m

\* results is what process_query returns for the running query and geocoder
\* answer, computed from the record table and the index as they are now
PipelineResults ==
  /\ nearby_sources = find_nearby_sources(df, coords[1].latitude, coords[1].longitude)
  /\ nearby_sources # <<>> =>
       odor_sources
         = filter_odor_sources(nearby_sources, query, vectorizer, feature_matrix).frame
  /\ results = [ i \in 1..Len(odor_sources) |-> FormatRow(odor_sources[i]) ]

\* C13: no step of process_query, whatever the call's outcome, changes the
\* record table, the vectorizer or the feature matrix; a call that returns
\* with a geocoder answer returns what the unchanged table and index
\* determine for that query and answer, so a repeated query repeats its result.
C13_StoreNeverMutated ==
  /\ [][store' = store]_vars
  /\ []((pc = "returned" /\ coords # <<>>) => PipelineResults)

\* C13 witness: a second call has returned a ranked result, with fewer
\* results than the table has rows
C13_Witness ==
  /\ served >= 1 /\ pc = "returned"
  /\ results # <<>> /\ Len(results) < Len(df)
  /\ feature_matrix = fit_transform(vectorizer, df)

\* result r reports the record at position i of the record table
ReportsRecord(r, i) ==
  /\ r.type = df[i].type
  /\ r.latitude = df[i].latitude /\ r.longitude = df[i].longitude
  /\ r.tags = df[i].tags.items
  /\ r.name = (IF df[i].name # <<>> THEN df[i].name[1] ELSE <<"U","n","k","n","o","w","n">>)

\* C12: the feature matrix holds one row per record, in record order, and
\* every result carries the cosine score of the query against the row of the
\* record it reports, whatever the radius search and the gate removed.
C12_SimilarityOfTheSameRecord ==
  /\ Len(feature_matrix) = Len(df)
  /\ \A i \in 1..Len(df) :
       feature_matrix[i] = Transform(vectorizer, combined_text(df[i]))
  /\ pc = "returned" =>
       \A k \in 1..Len(results) :
         \E i \in 1..Len(df) :
           /\ ReportsRecord(results[k], i)
           /\ results[k].similarity
                = cosine_similarity(Transform(vectorizer, query),
                                    Transform(vectorizer, combined_text(df[i])))

\* C12 witness: the first record of the table was removed, and the one
\* result carries the score of the second record's row, which differs from
\* the score of the first row
C12_Witness ==
  /\ pc = "returned" /\ Len(df) = 2 /\ Len(results) = 1
  /\ odor_sources[1].idx = 1
  /\ ReportsRecord(results[1], 2)
  /\ results[1].similarity > 0
  /\ cosine_similarity(Transform(vectorizer, query), feature_matrix[1]) = 0

----------------------------------------------------------------------------
(* filter_odor_sources called on its own, and the result loop of            *)
(* process_query applied to what it returns                                 *)

\* distances a caller's frame can carry
DistanceValues == {120, 480}

\* queries a caller passes to filter_odor_sources
FilterQueries ==
  { <<>>,
    <<"l","a","n","d","f","i","l","l"," ","s","m","e","l","l">>,
    <<"c","a","f","e"," ","n","e","a","r"," ","i","n","d","u","s","t","r","i","a","l"," ","w","a","s","t","e">> }

\* row i of the record table as a frame row with distance d and tag cell c
FrameRow(d, i, c, dist) ==
  [ idx |-> i - 1, name |-> d[i].name, type |-> d[i].type, tags |-> c,
    latitude |-> d[i].latitude, longitude |-> d[i].longitude,
    geometry |-> Point(d[i].longitude, d[i].latitude), distance_m |-> dist ]

\* the rows a frame can hold: a record at either distance, or the record
\* with a tag cell that is not a mapping
CandidateRows ==
  { FrameRow(RecordPool, i, RecordPool[i].tags, dist) :
      i \in 1..Len(RecordPool), dist \in DistanceValues }
  \cup { FrameRow(RecordPool, i, c, 120) : i \in 1..Len(RecordPool), c \in MalformedCells }

\* frames of at most MaxCandidates rows, in record order as a selection keeps them
CandidateFrames ==
  { f \in UNION { [1..n -> CandidateRows] : n \in 0..MaxCandidates } :
      \A i \in 1..Len(f), j \in 1..Len(f) : i < j => f[i].idx < f[j].idx }

InitFilter ==
  /\ df = RecordPool
  /\ vectorizer = LoadedVectorizer
  /\ feature_matrix = fit_transform(vectorizer, df)
  /\ pc = "idle"
  /\ query \in FilterQueries
  /\ gdf \in CandidateFrames
  /\ location = <<>> /\ stage = 0 /\ cascade = NoCascade
  /\ answer = <<>> /\ coords = <<>>
  /\ nearby_sources = <<>> /\ odor_sources = <<>> /\ results = <<>>
  /\ raised = <<>> /\ calls = <<>> /\ served = 0
  /\ NoPublish

\* filter_odor_sources(gdf, query)
FilterCall ==
  /\ pc = "idle"
  /\ LET r == filter_odor_sources(gdf, query, vectorizer, feature_matrix)
     IN  /\ raised' = r.raised
         /\ odor_sources' = r.frame
         /\ pc' = IF r.raised # <<>> THEN "raised" ELSE "filtered"
  /\ UNCHANGED << store, publish, served,
                  answer, query, location, stage, cascade, coords,
                  nearby_sources, gdf, results, calls >>

\* Step 5 of process_query on the returned frame
FormatRows ==
  /\ pc = "filtered"
  /\ results' = [ i \in 1..Len(odor_sources) |-> FormatRow(odor_sources[i]) ]
  /\ pc' = "returned"
  /\ UNCHANGED << store, publish, served,
                  answer, query, location, stage, cascade, coords,
                  nearby_sources, gdf, odor_sources, raised, calls >>

NextFilter == FilterCall \/ FormatRows

SpecFilter == InitFilter /\ [][NextFilter]_vars

----------------------------------------------------------------------------
(* Properties of filter_odor_sources *)

Returned == pc \in {"filtered", "returned"}

\* C5: for a non-empty query the returned rows have non-increasing
\* similarity, and non-decreasing distance_m within equal similarity; the
\* reported results keep that order.
C5_RankedBySimilarityThenDistance ==
  (Returned /\ query # <<>>) =>
    /\ \A i \in 1..(Len(odor_sources) - 1) :
         /\ odor_sources[i].similarity >= odor_sources[i + 1].similarity
         /\ odor_sources[i].similarity = odor_sources[i + 1].similarity
              => odor_sources[i].distance_m <= odor_sources[i + 1].distance_m
    /\ pc = "returned" =>
         /\ Len(results) = Len(odor_sources)
         /\ \A i \in 1..Len(results) :
              /\ results[i].similarity = odor_sources[i].similarity
              /\ results[i].distance_m = odor_sources[i].distance_m

\* C5 witness: three rows came back reordered: the most similar first though
\* it was not first in the frame, then a tie in similarity that the distance
\* put in the opposite of frame order
C5_Witness ==
  /\ pc = "returned" /\ query # <<>> /\ Len(results) = 3
  /\ results[1].similarity > results[2].similarity
  /\ results[2].similarity = results[3].similarity
  /\ results[2].distance_m < results[3].distance_m
  /\ odor_sources[1].idx > odor_sources[3].idx
  /\ odor_sources[2].idx > odor_sources[3].idx

\* some tag value of the row, lower-cased, contains an odor keyword
HasOdorKeywordValue(row) ==
  /\ row.tags.kind = "object"
  /\ \E i \in 1..Len(row.tags.items), k \in 1..Len(odor_keywords) :
       Contains(Lower(row.tags.items[i].v), odor_keywords[k])

\* C6: the rows kept by the gate are exactly the rows of the frame with an
\* odor keyword inside a tag value (case-insensitively); keys do not count,
\* and neither does the similarity of the row to the query.
C6_KeywordGate ==
  Returned =>
    { odor_sources[k].idx : k \in 1..Len(odor_sources) }
      = { gdf[k].idx : k \in { j \in 1..Len(gdf) : HasOdorKeywordValue(gdf[j]) } }

\* C6 witness: a cafe row similar to the query is dropped, a keyword row is
\* kept, and a row with the keyword only in a key is dropped
C6_Witness ==
  /\ pc = "filtered" /\ Len(odor_sources) = 1 /\ Len(gdf) = 3
  /\ \E k \in 1..Len(gdf) :
       /\ gdf[k].tags.items = << [k |-> <<"a","m","e","n","i","t","y">>, v |-> <<"c","a","f","e">>] >>
       /\ cosine_similarity(Transform(vectorizer, query), feature_matrix[gdf[k].idx + 1]) > 0
  /\ \E k \in 1..Len(gdf) :
       /\ ~HasOdorKeywordValue(gdf[k])
       /\ \E i \in 1..Len(gdf[k].tags.items), j \in 1..Len(odor_keywords) :
            Contains(Lower(gdf[k].tags.items[i].k), odor_keywords[j])

\* the tag cell does not hold a mapping
NotAMapping(row) == row.tags.kind \in {"invalid", "array"}

\* C7: a row whose tags are not a mapping is excluded and the call still
\* returns, raising nothing.
C7_MalformedTagsExcludedNotRaised ==
  (pc # "idle" /\ \E k \in 1..Len(gdf) : NotAMapping(gdf[k])) =>
    /\ raised = <<>>
    /\ \A k \in 1..Len(odor_sources) : ~NotAMapping(odor_sources[k])

\* C9: for an empty query the gated rows come back sorted by distance_m
\* ascending, and every reported item has similarity 0.
C9_EmptyQuerySortedByDistance ==
  (Returned /\ query = <<>>) =>
    /\ \A i \in 1..(Len(odor_sources) - 1) :
         odor_sources[i].distance_m <= odor_sources[i + 1].distance_m
    /\ pc = "returned" => \A i \in 1..Len(results) : results[i].similarity = 0

----------------------------------------------------------------------------
(* extract_location called on its own *)

\* words a query handed to extract_location is made of
QueryWords == { <<"s","m","e","l","l">>, <<"n","e","w">>, <<"R","a","n","i","p">>, <<"B","o","p","a","l","s">>, <<"G","o","t","a">> }

\* the queries of at most MaxQueryWords words, single spaces between them
ExtractQueries ==
  { Join(<<" ">>, ws) : ws \in UNION { [1..n -> QueryWords] : n \in 1..MaxQueryWords } }

InitExtract ==
  /\ df = RecordPool
  /\ vectorizer = LoadedVectorizer
  /\ feature_matrix = fit_transform(vectorizer, df)
  /\ pc = "idle"
  /\ query \in ExtractQueries
  /\ location = <<>> /\ stage = 0 /\ cascade = NoCascade
  /\ answer = <<>> /\ coords = <<>>
  /\ nearby_sources = <<>> /\ gdf = <<>> /\ odor_sources = <<>> /\ results = <<>>
  /\ raised = <<>> /\ calls = <<>> /\ served = 0
  /\ NoPublish

\* extract_location(query), the two detectors answering as they may
ExtractCall ==
  /\ pc = "idle"
  /\ \E cities \in GeoTextCities(query), ents \in SpacyEnts(query) :
       LET r == ExtractLocation(query, cities, ents)
       IN  /\ location' = r.location
           /\ stage' = r.stage
           /\ cascade' = Cascade(r, cities, ents)
  /\ pc' = "extracted"
  /\ UNCHANGED << store, publish, served,
                  answer, query, coords, nearby_sources, gdf,
                  odor_sources, results, raised, calls >>

NextExtract == ExtractCall

SpecExtract == InitExtract /\ [][NextExtract]_vars

\* the query holds the area name at a word boundary, more word characters
\* allowed after it
HoldsArea(text, area) == AreaPatternMatches(area, Lower(text))

\* C8: when stages 1 and 2 found nothing and the query holds a listed name N
\* as a prefix-bounded token, stage 3 returns exactly N, also when N has
\* another listed name as a later word.  (Stated for the queries in which
\* every other listed name the query holds lies inside N, so that N is the
\* one name the query is about.)
C8_Stage3ReturnsTheName ==
  \A n \in 1..Len(ahmedabad_areas) :
    ( /\ pc = "extracted" /\ stage \notin {1, 2}
      /\ HoldsArea(query, ahmedabad_areas[n])
      /\ \A m \in 1..Len(ahmedabad_areas) :
           HoldsArea(query, ahmedabad_areas[m])
             => Contains(Lower(ahmedabad_areas[n]), Lower(ahmedabad_areas[m])) )
    => location = << ahmedabad_areas[n] >>

\* the entity tagger reported a geopolitical entity
SawGpe == \E i \in 1..Len(cascade.ents) : cascade.ents[i].label_ = "GPE"

\* some listed area name is held by the query
SomeAreaHeld == \E n \in 1..Len(ahmedabad_areas) : HoldsArea(query, ahmedabad_areas[n])

\* C11: the stages are evaluated in the order gazetteer, entity tagger, area
\* list, and the first that finds something decides the result and ends the
\* evaluation: stage 1 decides exactly when it found a city, stage 2 only
\* when stage 1 found none, stage 3 only when stages 1 and 2 found nothing,
\* and the result is None exactly when all three found nothing.
C11_CascadeInOrder ==
  pc = "extracted" =>
    /\ Len(cascade.evaluated) >= 1
    /\ cascade.evaluated = SubSeq(<< 1, 2, 3 >>, 1, Len(cascade.evaluated))
    /\ stage = 1 <=> cascade.cities # <<>>
    /\ stage = 1 => (location = << cascade.cities[1] >> /\ cascade.evaluated = << 1 >>)
    /\ stage = 2 <=> (cascade.cities = <<>> /\ SawGpe)
    /\ stage = 2 =>
         /\ cascade.evaluated = << 1, 2 >>
         /\ \E i \in 1..Len(cascade.ents) :
              /\ cascade.ents[i].label_ = "GPE"
              /\ location = << cascade.ents[i].text >>
              /\ \A j \in 1..(i - 1) : cascade.ents[j].label_ # "GPE"
    /\ stage = 3 <=> (cascade.cities = <<>> /\ ~SawGpe /\ SomeAreaHeld)
    /\ stage = 3 =>
         /\ cascade.evaluated = << 1, 2, 3 >>
         /\ \E n \in 1..Len(ahmedabad_areas) :
              location = << ahmedabad_areas[n] >> /\ HoldsArea(query, ahmedabad_areas[n])
    /\ location = <<>> <=> (cascade.cities = <<>> /\ ~SawGpe /\ ~SomeAreaHeld)
    /\ location = <<>> => (stage = 0 /\ cascade.evaluated = << 1, 2, 3 >>)

\* C11 witness: the gazetteer found nothing, the tagger reported an entity
\* that is no place, and the area list decided
C11_Witness ==
  /\ pc = "extracted" /\ stage = 3
  /\ cascade.cities = <<>> /\ cascade.ents # <<>> /\ ~SawGpe
  /\ cascade.evaluated = << 1, 2, 3 >> /\ location # <<>>

----------------------------------------------------------------------------
(* Publishing the index: KBPreparation.generate_tfidf_matrix writes the two *)
(* artifact files while QueryProcessor.__init__ reads the three files.      *)
(* A file is [build, complete]: the build that wrote it last, and whether   *)
(* that write has finished (open(path, 'wb') empties the file at once).     *)

Paths == {"csv", "vectorizer", "feature_matrix"}

InitPublish ==
  /\ df = RecordPool
  /\ vectorizer = LoadedVectorizer
  /\ feature_matrix = fit_transform(vectorizer, df)
  /\ Idle
  /\ files = [ p \in Paths |-> [build |-> 0, complete |-> TRUE] ]
  /\ bpc = "idle" /\ build = 0
  /\ lpc = "csv"
  /\ loaded = [ p \in Paths |-> <<>> ]

running == << pc, query, location, stage, cascade, answer, coords, nearby_sources, gdf,
              odor_sources, results, raised, calls, served >>

\* vectorizer.fit_transform(corpus): a new build, still in memory
FitTransform ==
  /\ bpc = "idle" /\ build < MaxBuilds
  /\ build' = build + 1
  /\ bpc' = "fitted"
  /\ UNCHANGED << store, running, files, lpc, loaded >>

\* with open(self.config.vectorizer_path, 'wb') as f:
OpenVectorizer ==
  /\ bpc = "fitted"
  /\ files' = [files EXCEPT !["vectorizer"] = [build |-> build, complete |-> FALSE]]
  /\ bpc' = "vectorizer_open"
  /\ UNCHANGED << store, running, build, lpc, loaded >>

\* pickle.dump(vectorizer, f), and the file is closed
DumpVectorizer ==
  /\ bpc = "vectorizer_open"
  /\ files' = [files EXCEPT !["vectorizer"] = [build |-> build, complete |-> TRUE]]
  /\ bpc' = "vectorizer_saved"
  /\ UNCHANGED << store, running, build, lpc, loaded >>

\* with open(self.config.feature_matrix_path, 'wb') as f:
OpenFeatureMatrix ==
  /\ bpc = "vectorizer_saved"
  /\ files' = [files EXCEPT !["feature_matrix"] = [build |-> build, complete |-> FALSE]]
  /\ bpc' = "feature_matrix_open"
  /\ UNCHANGED << store, running, build, lpc, loaded >>

\* pickle.dump(feature_matrix, f), and the file is closed
DumpFeatureMatrix ==
  /\ bpc = "feature_matrix_open"
  /\ files' = [files EXCEPT !["feature_matrix"] = [build |-> build, complete |-> TRUE]]
  /\ bpc' = "idle"
  /\ UNCHANGED << store, running, build, lpc, loaded >>

\* one read of __init__: the file as it is on disk now; a file whose write
\* has not finished makes the read raise, and __init__ raises CustomException
Load(path, next) ==
  /\ loaded' = [loaded EXCEPT ![path] = << files[path] >>]
  /\ lpc' = IF files[path].complete THEN next ELSE "failed"
  /\ UNCHANGED << store, running, files, bpc, build >>

\* self.df = pd.read_csv(self.config.input_csv_path)
LoadCsv == lpc = "csv" /\ Load("csv", "vectorizer")

\* self.vectorizer = pickle.load(f)
LoadVectorizer == lpc = "vectorizer" /\ Load("vectorizer", "feature_matrix")

\* self.feature_matrix = pickle.load(f)
LoadFeatureMatrix == lpc = "feature_matrix" /\ Load("feature_matrix", "ready")

NextPublish ==
  \/ FitTransform
  \/ OpenVectorizer
  \/ DumpVectorizer
  \/ OpenFeatureMatrix
  \/ DumpFeatureMatrix
  \/ LoadCsv
  \/ LoadVectorizer
  \/ LoadFeatureMatrix

SpecPublish == InitPublish /\ [][NextPublish]_vars

\* C10: whatever the interleaving, a start-up that completes has read no
\* half-written artifact, and its vectorizer and feature matrix come from
\* the same build.
C10_PublishIsAtomic ==
  lpc = "ready" =>
    /\ \A p \in Paths : loaded[p][1].complete
    /\ loaded["vectorizer"][1].build = loaded["feature_matrix"][1].build

====
